---- MODULE Spec2Model ----
(***************************************************************************)
(* consul-online: a readiness probe.  main() builds a Config, wait() sets  *)
(* up the agent and the token header and then polls the health endpoint    *)
(* until it answers 200, the global timeout is exceeded, or a request      *)
(* fails fatally.  Time is counted in whole seconds.                       *)
(***************************************************************************)
EXTENDS Integers, Sequences, FiniteSets, TLC

\* ------------------------------------------------------------------ bounds
\* largest global timeout / interval (seconds) a configuration is drawn with
MaxTimeout == 12
MaxInterval == 12
\* the attempt counter counts up to this value and then sticks
MaxAttempts == 4

\* ------------------------------------------------------- program constants
DefaultInterval == 10
FloorReconnect == 0
FloorNoReconnect == 10

\* Option<u64>::None and Option<String>::None
NoneN == -1
NoneS == "None"

Max(a, b) == IF a >= b THEN a ELSE b
Min(a, b) == IF a <= b THEN a ELSE b

\* Duration::checked_sub: None (here NoneN) when the result would be negative
checked_sub(a, b) == IF a >= b THEN a - b ELSE NoneN

\* ------------------------------------------------------------------ strings
\* A string is a sequence of one-character strings.
S_http == <<"h","t","t","p",":","/","/">>
S_https == <<"h","t","t","p","s",":","/","/">>
S_unix == <<"u","n","i","x",":","/">>
S_host == <<"h",":","8","5","0","0">>
S_path == <<"/","v","1","/","o","p","e","r","a","t","o","r","/","r","a","f","t","/","c","o","n","f","i","g","u","r","a","t","i","o","n">>

starts_with(s, p) == Len(s) >= Len(p) /\ SubSeq(s, 1, Len(p)) = p
\* str::split_at(n).1
split_at_1(s, n) == SubSeq(s, n + 1, Len(s))

\* ------------------------------------------------------------------- files
\* A file a configuration names is "missing", "garbage" (no PEM), "badder" (PEM around
\* bytes that are no certificate or key) or "good".
file_readable(f) == f # "missing"
file_is_pem(f) == f \in {"badder", "good"}
file_is_valid(f) == f = "good"

\* the contents of the token files a configuration can name
TokenFiles == {"missing", "tok", "padded"}
token_file_text(f) == IF f = "tok" THEN <<"t","k">> ELSE <<" ","t","k","\n">>

IsSpace(c) == c \in {" ", "\n", "\t", "\r"}
RECURSIVE trim_start(_)
trim_start(s) == IF s # <<>> /\ IsSpace(Head(s)) THEN trim_start(Tail(s)) ELSE s
RECURSIVE trim_end(_)
trim_end(s) ==
  IF s # <<>> /\ IsSpace(s[Len(s)]) THEN trim_end(SubSeq(s, 1, Len(s) - 1)) ELSE s
trim(s) == trim_end(trim_start(s))

\* ------------------------------------------------------------------ results
Ok(v) == [ok |-> TRUE, kind |-> "Ok", val |-> v]
Err(k) == [ok |-> FALSE, kind |-> k, val |-> <<>>]

\* ------------------------------------------------------------ configuration
Addrs == { S_host, S_http \o S_host, S_https \o S_host, S_unix \o <<"x">> }

BaseConfig ==
  [ http_addr |-> S_host, http_ssl |-> FALSE, timeout |-> 0, interval |-> NoneN,
    reconnect |-> FALSE, skip_verify |-> FALSE, ca_cert |-> NoneS,
    client_cert |-> NoneS, client_key |-> NoneS, http_token |-> NoneS,
    http_token_file |-> NoneS ]

Timeouts == {NoneN, 0, 5, MaxTimeout}
Intervals == {NoneN, 0, 3, 10, MaxInterval}

\* configurations that vary what the poll loop reads
LoopConfigs ==
  { [BaseConfig EXCEPT !.timeout = t, !.interval = i, !.reconnect = r] :
      t \in Timeouts, i \in Intervals, r \in BOOLEAN }

\* configurations that vary the address and the TLS material
TlsConfigs ==
  { [BaseConfig EXCEPT !.http_addr = a, !.http_ssl = s, !.skip_verify = v,
                       !.ca_cert = ca, !.client_cert = cc, !.client_key = ck] :
      a \in Addrs, s \in BOOLEAN, v \in BOOLEAN,
      ca \in {NoneS, "missing", "garbage", "badder", "good"},
      cc \in {NoneS, "missing", "garbage", "good"},
      ck \in {NoneS, "missing", "badder", "good"} }

\* configurations that vary the token
TokenConfigs ==
  { [BaseConfig EXCEPT !.http_token = t, !.http_token_file = f] :
      t \in {NoneS, "lit"}, f \in {NoneS} \cup TokenFiles }

Configs == LoopConfigs \cup TlsConfigs \cup TokenConfigs

\* what Config::try_from can meet in the environment
EnvErrors == {"none", "InvalidBool", "General"}

\* -------------------------------------------------------- TLS configuration
load_client_cert(path) ==
  IF ~file_readable(path) THEN Err("ReadClientCert")
  ELSE IF ~file_is_pem(path) THEN Err("ParseClientCert")
  ELSE Ok(path)

load_client_key(path) ==
  IF ~file_readable(path) THEN Err("ReadClientKey")
  ELSE IF ~file_is_pem(path) THEN Err("ParseClientKey")
  ELSE Ok(path)

\* with_single_cert rejects a key it cannot use
with_single_cert(builder, cert, key) ==
  IF ~file_is_valid(key) THEN Err("AddClientCert")
  ELSE Ok([builder EXCEPT !.client_auth = <<cert, key>>])

add_client_cert(config, builder) ==
  IF config.client_cert # NoneS
  THEN IF config.client_key # NoneS
       THEN LET c == load_client_cert(config.client_cert)
                k == load_client_key(config.client_key)
            IN  IF ~c.ok THEN c
                ELSE IF ~k.ok THEN k
                ELSE with_single_cert(builder, c.val, k.val)
       ELSE Err("MissingClientKey")
  ELSE IF config.client_key # NoneS
       THEN Err("MissingClientCert")
       ELSE Ok([builder EXCEPT !.client_auth = <<>>])

\* add_client_cert2 with a key that comes without a certificate passed over
add_client_cert2_lone_key_ignored(config, builder) ==
  IF config.client_cert # NoneS
  THEN IF config.client_key # NoneS
       THEN LET c == load_client_cert(config.client_cert)
                k == load_client_key(config.client_key)
            IN  IF ~c.ok THEN c
                ELSE IF ~k.ok THEN k
                ELSE with_single_cert(builder, c.val, k.val)
       ELSE Err("MissingClientKey")
  ELSE Ok([builder EXCEPT !.client_auth = <<>>])

add_client_cert2(config, builder) ==
  IF config.client_cert # NoneS
  THEN IF config.client_key # NoneS
       THEN LET c == load_client_cert(config.client_cert)
                k == load_client_key(config.client_key)
            IN  IF ~c.ok THEN c
                ELSE IF ~k.ok THEN k
                ELSE with_single_cert(builder, c.val, k.val)
       ELSE Err("MissingClientKey")
  ELSE IF config.client_key # NoneS
       THEN Err("MissingClientCert")
       ELSE Ok([builder EXCEPT !.client_auth = <<>>])

\* add_verifier with the CA certificate loaded before skip_verify is looked at
add_verifier_ca_first(config, builder) ==
  LET ca == config.ca_cert
      roots == [builder EXCEPT !.verifier = "WebPki", !.roots = {"webpki_roots"}]
  IN  IF ca # NoneS /\ ~file_readable(ca) THEN Err("ReadCaCert")
      ELSE IF ca # NoneS /\ ~file_is_pem(ca) THEN Err("ParseCaCert")
      ELSE IF ca # NoneS /\ ~file_is_valid(ca) THEN Err("AddCaCert")
      ELSE IF config.skip_verify
      THEN add_client_cert(config, [builder EXCEPT !.verifier = "SkippingVerifier"])
      ELSE add_client_cert2(config,
             IF ca # NoneS THEN [roots EXCEPT !.roots = @ \cup {ca}] ELSE roots)

add_verifier(config, builder) ==
  IF config.skip_verify
  THEN add_client_cert(config, [builder EXCEPT !.verifier = "SkippingVerifier"])
  ELSE LET ca == config.ca_cert
           roots == [builder EXCEPT !.verifier = "WebPki", !.roots = {"webpki_roots"}]
       IN  IF ca # NoneS
           THEN IF ~file_readable(ca) THEN Err("ReadCaCert")
                ELSE IF ~file_is_pem(ca) THEN Err("ParseCaCert")
                ELSE IF ~file_is_valid(ca) THEN Err("AddCaCert")
                ELSE add_client_cert2(config, [roots EXCEPT !.roots = @ \cup {ca}])
           ELSE add_client_cert2(config, roots)

build_tls_config(config) ==
  add_verifier(config, [tls |-> TRUE, verifier |-> "unset", roots |-> {}, client_auth |-> <<>>])

\* url_base without the branch that rejects unix sockets
url_base_unix_as_host(config) ==
  IF starts_with(config.http_addr, S_http)
  THEN IF config.http_ssl
       THEN Ok(<<S_https \o split_at_1(config.http_addr, 6), TRUE>>)
       ELSE Ok(<<config.http_addr, FALSE>>)
  ELSE IF starts_with(config.http_addr, S_https)
  THEN Ok(<<config.http_addr, TRUE>>)
  ELSE IF config.http_ssl
  THEN Ok(<<S_https \o config.http_addr, TRUE>>)
  ELSE Ok(<<S_http \o config.http_addr, FALSE>>)

url_base(config) ==
  IF starts_with(config.http_addr, S_http)
  THEN IF config.http_ssl
       THEN Ok(<<S_https \o split_at_1(config.http_addr, 6), TRUE>>)
       ELSE Ok(<<config.http_addr, FALSE>>)
  ELSE IF starts_with(config.http_addr, S_https)
  THEN Ok(<<config.http_addr, TRUE>>)
  ELSE IF starts_with(config.http_addr, S_unix)
  THEN Err("UnixSocketUnsupported")
  ELSE IF config.http_ssl
  THEN Ok(<<S_https \o config.http_addr, TRUE>>)
  ELSE Ok(<<S_http \o config.http_addr, FALSE>>)

PlainAgent == [tls |-> FALSE, verifier |-> "unset", roots |-> {}, client_auth |-> <<>>]

agent_and_url(config) ==
  LET b == url_base(config)
  IN  IF ~b.ok THEN b
      ELSE LET url == b.val[1]
               ssl == b.val[2]
               agent == IF ssl THEN build_tls_config(config) ELSE Ok(PlainAgent)
           IN  IF ~agent.ok THEN agent
               ELSE Ok(<<agent.val, url \o S_path>>)

\* HeaderAdder::try_new without the trim of the token file's contents
HeaderAdder_try_new_untrimmed(config) ==
  IF config.http_token # NoneS
  THEN Ok(<<"X-Consul-Token", <<"l","i","t">> >>)
  ELSE IF config.http_token_file # NoneS
       THEN IF config.http_token_file = "missing" THEN Err("ReadTokenFile")
            ELSE Ok(<<"X-Consul-Token", token_file_text(config.http_token_file)>>)
       ELSE Ok(<<>>)

\* HeaderAdder::try_new: the header to add, <<>> for none
HeaderAdder_try_new(config) ==
  IF config.http_token # NoneS
  THEN Ok(<<"X-Consul-Token", <<"l","i","t">> >>)
  ELSE IF config.http_token_file # NoneS
       THEN IF config.http_token_file = "missing" THEN Err("ReadTokenFile")
            ELSE Ok(<<"X-Consul-Token", trim(token_file_text(config.http_token_file))>>)
       ELSE Ok(<<>>)

\* Config::try_from: the environment's booleans and numbers must parse
Config_try_from(c, env) == IF env = "none" THEN Ok(c) ELSE Err(env)

\* ---------------------------------------------------------------- requests
\* what the server (or the network) answers to one GET
Statuses == {200, 204, 302, 404, 500}
Transport == [kind |-> "Transport", code |-> 0]
Status(c) == [kind |-> "Status", code |-> c]
Responses == { Status(c) : c \in Statuses } \cup {Transport}
NoResponse == [kind |-> "None", code |-> 0]

\* do_request with every status of 300 and above taken for an error
do_request_from_300(resp) ==
  IF resp.kind = "Transport" THEN [ok |-> FALSE, kind |-> "Transport", code |-> 0]
  ELSE IF resp.code >= 300 THEN [ok |-> FALSE, kind |-> "Status", code |-> resp.code]
  ELSE [ok |-> TRUE, kind |-> "Status", code |-> resp.code]

\* do_request: ureq's call() gives Err(Status) for a status of 400 and above, Err(Transport)
\* when no response was read, and Ok otherwise; the Ok status is passed on
do_request(resp) ==
  IF resp.kind = "Transport" THEN [ok |-> FALSE, kind |-> "Transport", code |-> 0]
  ELSE IF resp.code >= 400 THEN [ok |-> FALSE, kind |-> "Status", code |-> resp.code]
  ELSE [ok |-> TRUE, kind |-> "Status", code |-> resp.code]

\* the match without the special case for status 500
classify_500_as_others(r, reconnect) ==
  IF r.ok
  THEN IF r.code = 200 THEN "Success" ELSE "Continue"
  ELSE IF ~reconnect THEN "Fatal" ELSE "Continue"

\* the match with a transport failure ending the loop whatever reconnect says
classify_transport_fatal(r, reconnect) ==
  IF r.ok
  THEN IF r.code = 200 THEN "Success" ELSE "Continue"
  ELSE IF r.kind = "Status"
       THEN IF r.code = 500 THEN "Continue"
            ELSE IF ~reconnect THEN "Fatal"
            ELSE "Continue"
       ELSE "Fatal"

\* the match with an error status other than 500 ending the loop whatever reconnect says
classify_status_fatal(r, reconnect) ==
  IF r.ok
  THEN IF r.code = 200 THEN "Success" ELSE "Continue"
  ELSE IF r.kind = "Status"
       THEN IF r.code = 500 THEN "Continue" ELSE "Fatal"
       ELSE IF ~reconnect THEN "Fatal"
            ELSE "Continue"

\* the match on do_request's result in wait(): "Success", "Fatal" or "Continue"
classify(r, reconnect) ==
  IF r.ok
  THEN IF r.code = 200 THEN "Success" ELSE "Continue"
  ELSE IF r.kind = "Status"
       THEN IF r.code = 500 THEN "Continue"
            ELSE IF ~reconnect THEN "Fatal"
            ELSE "Continue"
       ELSE IF ~reconnect THEN "Fatal"
            ELSE "Continue"

\* the interval wait() polls with
interval_of(config) == IF config.interval # NoneN THEN config.interval ELSE DefaultInterval

\* the timeout of one attempt, not capped by what is left of the global timeout
per_attempt_timeout_uncapped(config, elapsed) ==
  Max( interval_of(config),
       IF config.reconnect THEN FloorReconnect ELSE FloorNoReconnect )

\* the timeout of one attempt with the two floors swapped
per_attempt_timeout_floors_swapped(config, elapsed) ==
  Max( IF config.timeout # NoneN
       THEN Min( IF checked_sub(config.timeout, elapsed) # NoneN
                 THEN checked_sub(config.timeout, elapsed) ELSE 0,
                 interval_of(config) )
       ELSE interval_of(config),
       IF config.reconnect THEN FloorNoReconnect ELSE FloorReconnect )

\* the timeout of one attempt without a floor
per_attempt_timeout_no_floor(config, elapsed) ==
  IF config.timeout # NoneN
  THEN Min( IF checked_sub(config.timeout, elapsed) # NoneN
            THEN checked_sub(config.timeout, elapsed) ELSE 0,
            interval_of(config) )
  ELSE interval_of(config)

\* the timeout of one attempt, computed when `elapsed` seconds have passed since start_time
per_attempt_timeout(config, elapsed) ==
  Max( IF config.timeout # NoneN
       THEN Min( IF checked_sub(config.timeout, elapsed) # NoneN
                 THEN checked_sub(config.timeout, elapsed) ELSE 0,
                 interval_of(config) )
       ELSE interval_of(config),
       IF config.reconnect THEN FloorReconnect ELSE FloorNoReconnect )

\* the budget check with <= for <
timed_out_at_deadline(config, start, t) ==
  config.timeout # NoneN /\ start + config.timeout <= t

\* the budget check with its two times swapped
timed_out_swapped(config, start, t) ==
  config.timeout # NoneN /\ t + config.timeout < start

\* the budget check after an attempt that did not end the loop
timed_out(config, start, t) == config.timeout # NoneN /\ start + config.timeout < t

\* the exit codes of a failed request and of a timeout swapped
exit_code_of_swapped(res) ==
  IF res.kind = "Request" THEN 2
  ELSE IF res.kind = "Timeout" THEN 3
  ELSE IF res.kind # "Ok" THEN 1
  ELSE 0

\* main()'s exit code for what Config::try_from(..).and_then(wait) returned
exit_code_of(res) ==
  IF res.kind = "Request" THEN 3
  ELSE IF res.kind = "Timeout" THEN 2
  ELSE IF res.kind # "Ok" THEN 1
  ELSE 0

\* ------------------------------------------------------------------- clock
\* the latest time the process can be started at
MaxStart == 1
MaxPerAttempt == Max(Max(MaxInterval, DefaultInterval), FloorNoReconnect)
\* the clock is not followed beyond this time
MaxClock == MaxStart + MaxTimeout + 1 + 2 * MaxPerAttempt

\* -------------------------------------------------------------------- state
VARIABLES
  config,      \* the Config of this run (the command line, before try_from)
  env,         \* what try_from meets in the environment
  pc,          \* "main", "wait", "loop", "request", "check", "sleep", "exit", "exited"
  now,         \* SystemTime::now()
  start_time,  \* wait()'s start_time
  timeout,     \* wait()'s per-attempt timeout of the current iteration
  req_start,   \* wait()'s req_start
  agent,       \* the agent built by agent_and_url
  url,         \* the url built by agent_and_url
  header,      \* the HeaderAdder
  result,      \* what try_from(..).and_then(wait) returned
  exit_code,   \* the process's exit code, -1 while it runs
  attempts,    \* requests issued so far (sticks at MaxAttempts)
  sleeps,      \* calls of thread::sleep so far (sticks at MaxAttempts)
  first,       \* the response of the first attempt
  uniform,     \* whether every attempt before the last one got the first one's response
  last,        \* the response of the last attempt
  last_end     \* the time at which the last attempt completed

vars == <<config, env, pc, now, start_time, timeout, req_start, agent, url, header,
          result, exit_code, attempts, sleeps, first, uniform, last, last_end>>

setup == <<config, env, agent, url, header, start_time>>
hist == <<attempts, sleeps, first, uniform, last, last_end>>

Res(k, c, d) == [kind |-> k, code |-> c, d |-> d]
Running == Res("Running", 0, 0)
NoHeader == [set |-> FALSE, value |-> <<>>]

Bump(n) == IF n < MaxAttempts THEN n + 1 ELSE n

Init ==
  /\ config \in Configs
  /\ env \in EnvErrors
  /\ pc = "main"
  /\ now \in 0..MaxStart
  /\ start_time = 0
  /\ timeout = 0
  /\ req_start = 0
  /\ agent = PlainAgent
  /\ url = <<>>
  /\ header = NoHeader
  /\ result = Running
  /\ exit_code = -1
  /\ attempts = 0
  /\ sleeps = 0
  /\ first = NoResponse
  /\ uniform = TRUE
  /\ last = NoResponse
  /\ last_end = 0

\* main(): Config::try_from(command_line)
TryFrom ==
  /\ pc = "main"
  /\ LET c == Config_try_from(config, env)
     IN  IF c.ok
         THEN pc' = "wait" /\ UNCHANGED result
         ELSE pc' = "exit" /\ result' = Res(c.kind, 0, 0)
  /\ UNCHANGED <<setup, hist, now, timeout, req_start, exit_code>>

\* wait(): the agent, the url, the header, start_time
WaitInit ==
  /\ pc = "wait"
  /\ LET a == agent_and_url(config)
         h == HeaderAdder_try_new(config)
     IN  IF ~a.ok
         THEN /\ pc' = "exit" /\ result' = Res(a.kind, 0, 0)
              /\ UNCHANGED <<agent, url, header, start_time>>
         ELSE IF ~h.ok
         THEN /\ pc' = "exit" /\ result' = Res(h.kind, 0, 0)
              /\ UNCHANGED <<agent, url, header, start_time>>
         ELSE /\ pc' = "loop"
              /\ agent' = a.val[1]
              /\ url' = a.val[2]
              /\ header' = IF h.val = <<>> THEN NoHeader
                           ELSE [set |-> TRUE, value |-> h.val[2]]
              /\ start_time' = now
              /\ UNCHANGED result
  /\ UNCHANGED <<config, env, hist, now, timeout, req_start, exit_code>>

\* the top of the loop with start_time taken anew in every iteration
ComputeTimeout_resets_start ==
  /\ pc = "loop"
  /\ start_time' = now
  /\ timeout' = per_attempt_timeout(config, 0)
  /\ req_start' = now
  /\ pc' = "request"
  /\ UNCHANGED <<config, env, agent, url, header, hist, now, result, exit_code>>

\* wait(), top of the loop: the timeout of this attempt and req_start
ComputeTimeout ==
  /\ pc = "loop"
  /\ timeout' = per_attempt_timeout(config, now - start_time)
  /\ req_start' = now
  /\ pc' = "request"
  /\ UNCHANGED <<setup, hist, now, result, exit_code>>

\* one do_request with the global timeout checked before the match on its result
Attempt_budget_first(resp, d) ==
  /\ now + d <= MaxClock
  /\ now' = now + d
  /\ last_end' = now + d
  /\ attempts' = Bump(attempts)
  /\ first' = IF attempts = 0 THEN resp ELSE first
  /\ uniform' = (attempts = 0 \/ (uniform /\ last = first))
  /\ last' = resp
  /\ LET r == do_request(resp)
         c == classify(r, config.reconnect)
     IN  IF timed_out(config, start_time, now + d)
         THEN pc' = "exit" /\ result' = Res("Timeout", 0, now + d - start_time)
         ELSE IF c = "Success" THEN pc' = "exit" /\ result' = Res("Ok", 0, 0)
         ELSE IF c = "Fatal" THEN pc' = "exit" /\ result' = Res("Request", r.code, 0)
         ELSE pc' = "check" /\ UNCHANGED result
  /\ UNCHANGED <<setup, sleeps, timeout, req_start, exit_code>>

\* wait(): one do_request that answers resp after d seconds, and the match on its result
Attempt(resp, d) ==
  /\ now + d <= MaxClock
  /\ now' = now + d
  /\ last_end' = now + d
  /\ attempts' = Bump(attempts)
  /\ first' = IF attempts = 0 THEN resp ELSE first
  /\ uniform' = (attempts = 0 \/ (uniform /\ last = first))
  /\ last' = resp
  /\ LET r == do_request(resp)
         c == classify(r, config.reconnect)
     IN  IF c = "Success" THEN pc' = "exit" /\ result' = Res("Ok", 0, 0)
         ELSE IF c = "Fatal" THEN pc' = "exit" /\ result' = Res("Request", r.code, 0)
         ELSE pc' = "check" /\ UNCHANGED result
  /\ UNCHANGED <<setup, sleeps, timeout, req_start, exit_code>>

\* wait(): a request that returns within its timeout
DoRequest ==
  /\ pc = "request"
  /\ \E resp \in Responses, d \in 0..timeout : Attempt(resp, d)

\* wait(): a request that returns a second after its timeout has passed
DoRequestLate ==
  /\ pc = "request"
  /\ \E resp \in Responses : Attempt(resp, timeout + 1)

\* wait(): the global timeout, checked after an attempt that did not end the loop
BudgetCheck ==
  /\ pc = "check"
  /\ IF timed_out(config, start_time, now)
     THEN pc' = "exit" /\ result' = Res("Timeout", 0, now - start_time)
     ELSE pc' = "sleep" /\ UNCHANGED result
  /\ UNCHANGED <<setup, hist, now, timeout, req_start, exit_code>>

\* the sleep cut to what is left of the global timeout
Sleep_capped_by_budget ==
  /\ pc = "sleep"
  /\ LET d == checked_sub(timeout, now - req_start)
         left == IF config.timeout # NoneN
                 THEN Max(0, config.timeout - (now - start_time)) ELSE d
     IN  IF d # NoneN
         THEN /\ now + Min(d, left) <= MaxClock
              /\ now' = now + Min(d, left)
              /\ sleeps' = Bump(sleeps)
         ELSE UNCHANGED <<now, sleeps>>
  /\ pc' = "loop"
  /\ UNCHANGED <<setup, attempts, first, uniform, last, last_end, timeout, req_start, result, exit_code>>

\* wait(): sleep what is left of the attempt's timeout
Sleep ==
  /\ pc = "sleep"
  /\ LET d == checked_sub(timeout, now - req_start)
     IN  IF d # NoneN
         THEN /\ now + d <= MaxClock
              /\ now' = now + d
              /\ sleeps' = Bump(sleeps)
         ELSE UNCHANGED <<now, sleeps>>
  /\ pc' = "loop"
  /\ UNCHANGED <<setup, attempts, first, uniform, last, last_end, timeout, req_start, result, exit_code>>

\* main(): std::process::exit
Exit ==
  /\ pc = "exit"
  /\ exit_code' = exit_code_of(result)
  /\ pc' = "exited"
  /\ UNCHANGED <<setup, hist, now, timeout, req_start, result>>

\* the clock advances while the loop computes: the time an iteration takes besides
\* its request and its sleep passes at the top of the loop.  The drift is followed
\* until the global timeout has passed: from then on the next budget check ends the
\* loop whatever the clock reads.
Tick ==
  /\ pc = "loop"
  /\ config.timeout # NoneN
  /\ now - start_time <= config.timeout
  /\ now' = now + 1
  /\ UNCHANGED <<setup, hist, pc, timeout, req_start, result, exit_code>>

Next == TryFrom \/ WaitInit \/ ComputeTimeout \/ DoRequest \/ BudgetCheck \/ Sleep \/ Exit

Spec == Init /\ [][Next]_vars

NextTick == Next \/ Tick

NextLate == Next \/ DoRequestLate

\* the runs of the poll loop alone, started at time 0
InitLoop == Init /\ config \in LoopConfigs /\ env = "none" /\ now = 0

\* the process keeps running, and the clock advances: a loop that passes its top
\* again and again takes time
LiveSpec == InitLoop /\ [][NextTick]_vars /\ WF_vars(Next) /\ SF_vars(Tick)

\* the runs of the poll loop with requests that may overrun their timeout
SpecLate == InitLoop /\ [][NextLate]_vars

\* ------------------------------------------------------------------ claims
Ended == pc \in {"exit", "exited"}
LoopStarted == attempts >= 1
Elapsed == now - start_time
HasBudget == config.timeout # NoneN
Retried(resp) == classify(do_request(resp), config.reconnect) = "Continue"
OtherStatus(resp) == resp.kind = "Status" /\ resp.code \notin {200, 500}

\* C1 (as stated): without reconnect, a first attempt that completes with any status
\* other than 200 and 500 ends the run fatally with that status, after one attempt
\* and no sleep.
C1_AnyOtherStatusFatal ==
  (~config.reconnect /\ attempts = 1 /\ OtherStatus(last))
    => /\ Ended
       /\ result = Res("Request", last.code, 0)
       /\ sleeps = 0

\* C1 (amended): without reconnect, a first attempt that completes with a status of
\* 400 or above other than 500 ends the run fatally with that status, after one
\* attempt and no sleep; a status below 400 other than 200 does not end the run
\* fatally: the loop goes on to its budget check.
C1_ErrorStatusFatal ==
  (~config.reconnect /\ attempts = 1 /\ OtherStatus(last))
    => IF last.code >= 400
       THEN Ended /\ result = Res("Request", last.code, 0) /\ sleeps = 0
       ELSE result.kind # "Request" /\ (Ended => result.kind = "Timeout")

C1_Witness ==
  /\ ~config.reconnect /\ attempts = 1 /\ last = Status(404)
  /\ pc = "exited" /\ exit_code = 3

\* every attempt so far got resp; every attempt before the last one got resp
AllSoFar(resp) == LoopStarted /\ uniform /\ first = resp /\ last = resp
OnlyBefore(resp) == LoopStarted /\ (attempts = 1 \/ (uniform /\ first = resp))

\* C2: without reconnect, while every attempt returns status 500 the run never ends
\* fatally; a Timeout is only reported with more than the global timeout elapsed;
\* and with a global timeout configured the run ends with Timeout, unless some
\* attempt returns something else.
C2_Safe ==
  (~config.reconnect /\ AllSoFar(Status(500)))
    => /\ result.kind # "Request"
       /\ (Ended => result.kind = "Timeout" /\ HasBudget /\ result.d > config.timeout)
C2_Always500TimesOut ==
  /\ []C2_Safe
  /\ [](pc = "loop" /\ ~config.reconnect /\ HasBudget
          => <>(result.kind = "Timeout" \/ (LoopStarted /\ ~AllSoFar(Status(500)))))

C2_Witness ==
  /\ ~config.reconnect /\ AllSoFar(Status(500)) /\ attempts >= 2
  /\ pc = "exited" /\ exit_code = 2

\* C3: with reconnect, transport failures do not end the run, and a 200 that follows
\* any number of them ends it with success.
C3_FailuresThenSuccess ==
  (config.reconnect /\ LoopStarted /\ OnlyBefore(Transport))
    => /\ last = Transport => result.kind # "Request" /\ (Ended => result.kind = "Timeout")
       /\ last = Status(200) => Ended /\ result = Res("Ok", 0, 0)

C3_Witness ==
  /\ config.reconnect /\ attempts >= 3 /\ OnlyBefore(Transport) /\ last = Status(200)
  /\ pc = "exited" /\ exit_code = 0

\* C4 (as stated): without reconnect and with a global timeout, the loop ends at most
\* the floor (10 s) after the global timeout.
C4_OverrunAtMostFloor ==
  (~config.reconnect /\ HasBudget /\ LoopStarted /\ Ended)
    => Elapsed <= config.timeout + FloorNoReconnect

\* C4 (amended): without reconnect and with a global timeout, the loop ends at most
\* twice the floor (20 s) after the global timeout, and the last attempt starts at
\* most the floor after it (requests return within their timeout; the time the loop
\* takes to compute is not counted).
C4_OverrunAtMostTwiceFloor ==
  (~config.reconnect /\ HasBudget /\ LoopStarted)
    => /\ req_start - start_time <= config.timeout + FloorNoReconnect
       /\ Ended => Elapsed <= config.timeout + 2 * FloorNoReconnect

C4_Witness ==
  /\ ~config.reconnect /\ HasBudget /\ pc = "exited" /\ result.kind = "Timeout"
  /\ Elapsed = config.timeout + 2 * FloorNoReconnect

\* C5: no sleep and no attempt follows an attempt that was retried and completed with
\* more than the global timeout elapsed: the run ends with Timeout carrying the time
\* elapsed at the check, which is more than the global timeout.
C5_TimeoutAfterDeadline ==
  /\ (HasBudget /\ LoopStarted /\ last_end - start_time > config.timeout /\ Retried(last))
       => /\ pc \in {"check", "exit", "exited"}
          /\ Ended => result = Res("Timeout", 0, Elapsed)
  /\ result.kind = "Timeout"
       => /\ HasBudget /\ Retried(last) /\ Ended
          /\ result.d = Elapsed /\ result.d > config.timeout
  /\ (HasBudget /\ pc \in {"sleep", "loop", "request"} /\ LoopStarted)
       => last_end - start_time <= config.timeout

C5_Witness ==
  /\ pc = "exited" /\ result.kind = "Timeout" /\ last = Status(204)
  /\ last_end - start_time > config.timeout /\ sleeps >= 1

\* C6: the timeout of every attempt is max(min(remaining, interval), floor), with
\* remaining = max(0, global timeout - elapsed), or the interval without a global
\* timeout, the interval defaulting to 10, and the floor 0 with reconnect and 10
\* without; so it is never below the floor.
C6_Floor == IF config.reconnect THEN 0 ELSE 10
C6_Interval == IF config.interval = NoneN THEN 10 ELSE config.interval
C6_Remaining ==
  IF config.timeout = NoneN THEN C6_Interval
  ELSE IF config.timeout - (req_start - start_time) > 0
       THEN config.timeout - (req_start - start_time) ELSE 0
C6_PerAttemptTimeout ==
  pc \in {"request", "check", "sleep"}
    => /\ timeout = Max(Min(C6_Remaining, C6_Interval), C6_Floor)
       /\ timeout >= C6_Floor

C6_Witness ==
  /\ pc = "request" /\ ~config.reconnect /\ config.timeout = 12 /\ config.interval = 3
  /\ req_start - start_time = 11 /\ timeout = 10

\* the scenario of C7: global timeout 5 s, interval 10 s, no reconnect
C7_Scenario == config.timeout = 5 /\ config.interval = 10 /\ ~config.reconnect
C7_FirstPendingAtDeadline == attempts = 1 /\ last_end - start_time > 5

\* C7 (as stated): in the scenario the first timeout is 10 s, and a run whose first
\* attempt is still pending 5 s after the start ends with Timeout.
C7_PendingAtDeadlineTimesOut ==
  C7_Scenario
    => /\ (pc = "request" /\ attempts = 0) => timeout = 10
       /\ (C7_FirstPendingAtDeadline /\ Ended) => result.kind = "Timeout"

\* C7 (amended): in the scenario the first timeout is 10 s, and a run whose first
\* attempt is still pending 5 s after the start ends right after that attempt: with
\* Timeout if the attempt's outcome is one the loop retries (status 500, or a status
\* below 400 other than 200), with success if it is a 200, and fatally otherwise
\* (a status of 400 or above other than 500, or a transport failure such as the
\* attempt's own timeout).
C7_PendingAtDeadlineEnds ==
  C7_Scenario
    => /\ (pc = "request" /\ attempts = 0) => timeout = 10
       /\ C7_FirstPendingAtDeadline
            => /\ pc \in {"check", "exit", "exited"}
               /\ Ended => result.kind = IF Retried(last) THEN "Timeout"
                                         ELSE IF last = Status(200) THEN "Ok"
                                         ELSE "Request"

C7_Witness ==
  /\ C7_Scenario /\ attempts = 1 /\ last = Status(500) /\ last_end - start_time = 10
  /\ pc = "exited" /\ exit_code = 2

\* C8: with a global timeout configured every run of the loop ends, and a loop that
\* ended did so with success, with a fatal request failure or with Timeout.
C8_EndsInThreeWays ==
  (Ended /\ LoopStarted) => result.kind \in {"Ok", "Request", "Timeout"}
C8_Terminates ==
  /\ []C8_EndsInThreeWays
  /\ [](pc = "loop" /\ HasBudget => <>(pc = "exited" /\ exit_code \in {0, 2, 3}))

C8_Witness ==
  /\ config.reconnect /\ attempts >= 3 /\ timeout = 0 /\ sleeps >= 2
  /\ pc = "exited" /\ result.kind = "Timeout"

\* C9: with reconnect no outcome of an attempt ends the loop fatally: a loop that
\* ended did so with success or with Timeout, and without a global timeout with
\* success.
C9_ReconnectNeverFatal ==
  config.reconnect
    => /\ result.kind # "Request"
       /\ (Ended /\ LoopStarted) => result.kind \in {"Ok", "Timeout"}
       /\ (Ended /\ LoopStarted /\ ~HasBudget) => result.kind = "Ok"

C9_Witness ==
  /\ config.reconnect /\ first = Status(404) /\ last = Transport
  /\ pc = "exited" /\ result.kind = "Timeout"

\* C10: the exit code is 0 exactly when an attempt returned 200, 2 exactly when the
\* loop ended with Timeout (only with a global timeout), 3 exactly when the loop ended
\* on a fatal request failure (only without reconnect), and 1 exactly when the run
\* failed before the loop started.
C10_ExitCodes ==
  pc = "exited"
    => /\ exit_code \in 0..3
       /\ exit_code = 0 <=> (LoopStarted /\ last = Status(200))
       /\ exit_code = 2 <=> (LoopStarted /\ Retried(last))
       /\ exit_code = 2 => (HasBudget /\ result.kind = "Timeout")
       /\ exit_code = 3 <=>
            (LoopStarted /\ classify(do_request(last), config.reconnect) = "Fatal")
       /\ exit_code = 3 => (~config.reconnect /\ result.kind = "Request")
       /\ exit_code = 1 <=> ~LoopStarted
       /\ exit_code = 1 => result.kind \notin {"Ok", "Request", "Timeout", "Running"}

C10_Witness ==
  /\ pc = "exited" /\ exit_code = 1 /\ result.kind = "ReadTokenFile" /\ attempts = 0

\* wait() is past its initialisation
InitDone == pc \notin {"main", "wait"} /\ env = "none"
IsUnix == starts_with(config.http_addr, S_unix)
UsesTls == ~IsUnix /\ (config.http_ssl \/ starts_with(config.http_addr, S_https))
InitErrors ==
  { "UnixSocketUnsupported", "ReadCaCert", "ParseCaCert", "AddCaCert", "AddClientCert",
    "MissingClientKey", "MissingClientCert", "ReadClientKey", "ParseClientKey",
    "ReadClientCert", "ParseClientCert", "ReadTokenFile" }
Aborted(kind) == Ended /\ result = Res(kind, 0, 0) /\ attempts = 0 /\ sleeps = 0

\* C11: a failure of the address resolution, of the construction of the trust
\* material or of the resolution of the token header is what wait() returns, with no
\* request made.
C11_InitErrorsAbort ==
  InitDone
    => /\ IsUnix => Aborted("UnixSocketUnsupported")
       /\ ~agent_and_url(config).ok => Aborted(agent_and_url(config).kind)
       /\ (agent_and_url(config).ok /\ ~HeaderAdder_try_new(config).ok)
            => Aborted("ReadTokenFile")
       /\ result.kind \in InitErrors => Aborted(result.kind)

C11_Witness ==
  /\ IsUnix /\ pc = "exited" /\ exit_code = 1 /\ attempts = 0
  /\ result.kind = "UnixSocketUnsupported"

C12_Lone == (config.client_cert # NoneS) # (config.client_key # NoneS)
C12_Missing == IF config.client_cert # NoneS THEN "MissingClientKey" ELSE "MissingClientCert"

\* C12 (as stated): with exactly one of client certificate and client key set, the
\* initialisation fails with MissingClientKey or MissingClientCert and the loop never
\* starts, whatever the address, the TLS flag and skip_verify are.
C12_LoneCredentialRejected ==
  (InitDone /\ C12_Lone) => Aborted(C12_Missing)

\* C12 (amended): with exactly one of client certificate and client key set and TLS
\* in use (an https:// address, or the TLS flag with an address that is no unix
\* socket), the initialisation fails and the loop never starts, whatever skip_verify
\* is: with MissingClientKey or MissingClientCert, or, without skip_verify and with a
\* CA certificate that cannot be read, parsed or added, with that CA error, which
\* comes first.  With plain HTTP the certificate and the key are not looked at and
\* the loop starts; a unix socket address fails as unsupported.
C12_LoneCredentialRejectedWithTls ==
  (InitDone /\ C12_Lone)
    => IF IsUnix THEN Aborted("UnixSocketUnsupported")
       ELSE IF UsesTls
       THEN IF config.skip_verify \/ config.ca_cert \in {NoneS, "good"}
            THEN Aborted(C12_Missing)
            ELSE /\ result.kind \in {"ReadCaCert", "ParseCaCert", "AddCaCert"}
                 /\ Aborted(result.kind)
       ELSE /\ result.kind \notin InitErrors
            /\ agent = PlainAgent
            /\ pc \in {"loop", "request"} \/ LoopStarted

C12_Witness ==
  /\ C12_Lone /\ UsesTls /\ config.skip_verify /\ config.client_key = NoneS
  /\ pc = "exited" /\ exit_code = 1 /\ result.kind = "MissingClientKey"

\* the base url and the transport C13 gives for an address and a TLS flag
C13_Base ==
  IF starts_with(config.http_addr, S_https) THEN config.http_addr
  ELSE IF starts_with(config.http_addr, S_http)
       THEN IF config.http_ssl THEN S_https \o S_host ELSE config.http_addr
       ELSE IF config.http_ssl THEN S_https \o config.http_addr
            ELSE S_http \o config.http_addr
C13_Tls == config.http_ssl \/ starts_with(config.http_addr, S_https)

\* C13: "http://h:8500" without TLS resolves to itself over plain HTTP, "h:8500" to
\* "https://h:8500" with TLS and to "http://h:8500" without, an https:// address to
\* itself with TLS, and "http://h:8500" with TLS to "https://h:8500".
C13_AddressResolution ==
  (InitDone /\ ~IsUnix /\ url # <<>>)
    => /\ url = C13_Base \o S_path
       /\ agent.tls = C13_Tls

C14_CaErrors == {"ReadCaCert", "ParseCaCert", "AddCaCert"}
C14_WithoutCa == agent_and_url([config EXCEPT !.ca_cert = NoneS])

\* C14: with skip_verify a configured CA certificate is not consulted: the
\* initialisation ends as it does without one, whatever the file holds; without
\* skip_verify and with TLS, a CA certificate that cannot be read or parsed is a
\* fatal initialisation error.
C14_SkipVerifyIgnoresCa ==
  (InitDone /\ HeaderAdder_try_new(config).ok)
    => /\ config.skip_verify
            => /\ result.kind \notin C14_CaErrors
               /\ IF C14_WithoutCa.ok
                  THEN /\ result.kind \notin InitErrors
                       /\ agent = C14_WithoutCa.val[1]
                       /\ url = C14_WithoutCa.val[2]
                  ELSE Aborted(C14_WithoutCa.kind)
       /\ (~config.skip_verify /\ UsesTls /\ config.ca_cert = "missing")
            => Aborted("ReadCaCert")
       /\ (~config.skip_verify /\ UsesTls /\ config.ca_cert = "garbage")
            => Aborted("ParseCaCert")

C14_Witness ==
  /\ config.skip_verify /\ config.ca_cert = "missing" /\ UsesTls
  /\ agent.verifier = "SkippingVerifier" /\ pc = "exited" /\ LoopStarted

C15_Header(v) == [set |-> TRUE, value |-> v]

\* C15: with a literal token the header carries it and the token file is not read;
\* with a token file alone the header carries the file's contents without the
\* surrounding whitespace, and a file that cannot be read is a fatal initialisation
\* error; with neither there is no header.
C15_TokenResolution ==
  (InitDone /\ agent_and_url(config).ok)
    => /\ config.http_token = "lit"
            => header = C15_Header(<<"l","i","t">>) /\ result.kind # "ReadTokenFile"
       /\ (config.http_token = NoneS /\ config.http_token_file \in {"tok", "padded"})
            => header = C15_Header(<<"t","k">>)
       /\ (config.http_token = NoneS /\ config.http_token_file = "missing")
            => Aborted("ReadTokenFile")
       /\ (config.http_token = NoneS /\ config.http_token_file = NoneS)
            => header = NoHeader /\ result.kind # "ReadTokenFile"

C15_Witness ==
  /\ config.http_token = NoneS /\ config.http_token_file = "padded"
  /\ header = C15_Header(<<"t","k">>) /\ LoopStarted

C16_Rest == timeout - (now - req_start)

\* C16: after an attempt that passed the budget check the loop sleeps for its timeout
\* less the time since the request started when that is not negative, and does not
\* sleep otherwise; so the next attempt starts at least the timeout after this one,
\* and exactly the timeout after it when the request returned within its timeout,
\* also when that is beyond the global timeout.
C16_SleepFillsTimeout ==
  /\ [][ pc = "sleep"
           => IF C16_Rest >= 0
              THEN now' = now + C16_Rest /\ sleeps' = Bump(sleeps)
              ELSE now' = now /\ sleeps' = sleeps ]_vars
  /\ [][ (pc = "loop" /\ LoopStarted /\ pc' = "request")
           => /\ req_start' - req_start >= timeout
              /\ last_end - req_start <= timeout => req_start' - req_start = timeout
              /\ last_end - req_start > timeout => req_start' = last_end ]_vars

C16_Witness ==
  /\ HasBudget /\ pc = "request" /\ LoopStarted /\ sleeps >= 1
  /\ req_start - start_time > config.timeout

\* what is left of the global timeout when the current attempt starts
C17_Remaining ==
  IF config.timeout - (req_start - start_time) > 0
  THEN config.timeout - (req_start - start_time) ELSE 0

\* C17: start_time is set when the loop is entered and never again, so with a global
\* timeout what is left of it at the start of an attempt is never more than at the
\* start of the attempt before, and never negative, and the attempt's timeout is
\* computed from it.
C17_BudgetNeverReplenished ==
  /\ [][ pc \notin {"main", "wait"} => start_time' = start_time ]_vars
  /\ [][ (HasBudget /\ pc = "loop" /\ LoopStarted /\ pc' = "request")
           => /\ C17_Remaining' <= C17_Remaining
              /\ C17_Remaining' >= 0
              /\ timeout' = Max(Min(C17_Remaining', interval_of(config)),
                                IF config.reconnect THEN 0 ELSE 10) ]_vars

C17_Witness ==
  /\ HasBudget /\ config.timeout > 0 /\ pc = "request" /\ attempts >= 2
  /\ C17_Remaining = 0 /\ req_start - start_time > config.timeout

C18_Fatal(resp) ==
  ~config.reconnect
    /\ (resp = Transport \/ (resp.kind = "Status" /\ resp.code >= 400 /\ resp.code # 500))
C18_Late == HasBudget /\ last_end - start_time > config.timeout

\* C18: a 200 ends the loop with success and a failure that is not retried ends it
\* fatally, also when the response comes after the global timeout; a Timeout comes
\* only right after an attempt whose outcome is retried.
C18_ClassificationFirst ==
  LoopStarted
    => /\ last = Status(200) => Ended /\ result = Res("Ok", 0, 0)
       /\ C18_Fatal(last) => Ended /\ result = Res("Request", last.code, 0)
       /\ result.kind = "Timeout"
            => /\ last # Status(200) /\ ~C18_Fatal(last)
               /\ C18_Late /\ result.d = last_end - start_time

C18_Witness ==
  /\ C18_Late /\ last = Status(200) /\ pc = "exited" /\ exit_code = 0

C19_Case == config.reconnect /\ HasBudget /\ pc \in {"request", "check", "sleep"}

\* C19 (as stated): with reconnect and a global timeout, the timeout of an attempt is
\* at most what is left of the global timeout, every attempt starts and completes
\* with at most the global timeout elapsed, and with nothing left the attempts get a
\* timeout of zero.
C19_AttemptsWithinBudget ==
  C19_Case
    => /\ timeout <= C17_Remaining
       /\ req_start - start_time <= config.timeout
       /\ pc # "request" => last_end - start_time <= config.timeout
       /\ req_start - start_time = config.timeout => timeout = 0

\* C19 (amended): with reconnect and a global timeout, the timeout of an attempt is
\* at most what is left of the global timeout, so an attempt that starts with at most
\* the global timeout elapsed completes with at most the global timeout elapsed; with
\* nothing left the attempts get a timeout of zero and the loop sleeps for no time,
\* until a budget check finds more than the global timeout elapsed and Timeout is
\* reported (or a 200 ends the loop).  The attempt before that check can start after
\* the deadline.
C19_Safe ==
  /\ C19_Case
       => /\ timeout <= C17_Remaining
          /\ (req_start - start_time <= config.timeout /\ pc # "request")
               => last_end - start_time <= config.timeout
          /\ req_start - start_time >= config.timeout => timeout = 0
  /\ (config.reconnect /\ result.kind = "Timeout")
       => HasBudget /\ result.d > config.timeout
C19_ZeroTimeoutsUntilTimeout ==
  /\ []C19_Safe
  /\ [][ (C19_Case /\ pc = "sleep" /\ req_start - start_time >= config.timeout)
           => now' = now ]_vars
  /\ [](C19_Case /\ req_start - start_time >= config.timeout
          => <>(Ended /\ result.kind \in {"Timeout", "Ok"}))

C19_Witness ==
  /\ config.reconnect /\ HasBudget /\ pc = "exited" /\ result.kind = "Timeout"
  /\ timeout = 0 /\ attempts >= 3 /\ req_start - start_time > config.timeout

====
